---- MODULE Spec2Model ----
(***************************************************************************)
(* Model of the trade-index service: the CSV ingestion pipeline            *)
(* (app/ingest.py), the store it upserts into, and the HTTP handlers of    *)
(* app/main.py that run it and read the mart table.                        *)
(*                                                                         *)
(* Text is modelled as a sequence of one-character strings, so that        *)
(* strip, prefix, suffix, split and digit tests are computed as the code   *)
(* computes them.  A CSV document is modelled after csv.reader has split   *)
(* it: a sequence of rows, each a sequence of cells.  A Decimal is a       *)
(* fixed-point integer with DecPlaces fractional digits.  A date is the    *)
(* integer year * 100 + month (the day is always 1).                       *)
(*                                                                         *)
(* Three specifications: Spec (ingest requests and reads, one at a time),  *)
(* IngestSpec (ingest requests only) and ConcSpec (overlapping calls of    *)
(* ingest(), row by row, under the store's row locks).                     *)
(***************************************************************************)
EXTENDS Integers, Sequences, FiniteSets, TLC

\* ------------------------------------------------------------------------
\* Bounds of the model.
MaxRows == 3      \* data rows of a generated CSV document
PageSize == 2     \* rows per INSERT statement of execute_values (scaled down)
MaxRuns == 2      \* ingest runs in one behaviour (values of the clock)
DecPlaces == 1    \* fractional digits kept by the fixed-point Decimal
MaxCalls == 2     \* calls of ingest() that may overlap
MaxHeaders == 3   \* header names of a generated header list

\* Program constants.
SampleRows == 200   \* rows sampled by the content sniffers
HeaderPreview == 20 \* headers quoted by the missing-columns error

\* ------------------------------------------------------------------------
\* Optional values.
None == [some |-> FALSE]
Some(x) == [some |-> TRUE, v |-> x]

\* ------------------------------------------------------------------------
\* Text helpers (str methods of Python, over sequences of characters).
Digits == {"0", "1", "2", "3", "4", "5", "6", "7", "8", "9"}
Whitespace == {" ", "\t", "\n", "\r"}
BOM == "BOM"
UpperCase ==
    [a |-> "A", b |-> "B", c |-> "C", d |-> "D", e |-> "E", f |-> "F", g |-> "G",
     h |-> "H", i |-> "I", j |-> "J", k |-> "K", l |-> "L", m |-> "M", n |-> "N",
     o |-> "O", p |-> "P", q |-> "Q", r |-> "R", s |-> "S", t |-> "T", u |-> "U",
     v |-> "V", w |-> "W", x |-> "X", y |-> "Y", z |-> "Z"]

Min(a, b) == IF a < b THEN a ELSE b
Max(a, b) == IF a < b THEN b ELSE a

Take(s, n) == SubSeq(s, 1, Min(n, Len(s)))
Drop(s, n) == SubSeq(s, n + 1, Len(s))

RECURSIVE LStripSet(_, _)
LStripSet(s, chars) ==
    IF s # <<>> /\ Head(s) \in chars THEN LStripSet(Tail(s), chars) ELSE s

RECURSIVE RStripSet(_, _)
RStripSet(s, chars) ==
    IF s # <<>> /\ s[Len(s)] \in chars
    THEN RStripSet(SubSeq(s, 1, Len(s) - 1), chars) ELSE s

\* str.strip()
Strip(s) == RStripSet(LStripSet(s, Whitespace), Whitespace)

\* str.startswith / str.endswith
StartsWith(s, p) == Len(p) <= Len(s) /\ SubSeq(s, 1, Len(p)) = p
EndsWith(s, p) == Len(p) <= Len(s) /\ SubSeq(s, Len(s) - Len(p) + 1, Len(s)) = p

\* str.replace(old, new), leftmost non-overlapping occurrences
RECURSIVE Replace(_, _, _)
Replace(s, old, new) ==
    IF s = <<>> THEN <<>>
    ELSE IF StartsWith(s, old) THEN new \o Replace(Drop(s, Len(old)), old, new)
    ELSE <<Head(s)>> \o Replace(Tail(s), old, new)

\* str.upper() on one character
UpperChar(c) == IF c \in DOMAIN UpperCase THEN UpperCase[c] ELSE c
RECURSIVE Upper(_)
Upper(s) == IF s = <<>> THEN <<>> ELSE <<UpperChar(Head(s))>> \o Upper(Tail(s))

\* str.isdigit(): non-empty and every character a digit
IsDigit(s) == s # <<>> /\ \A i \in 1..Len(s) : s[i] \in Digits

DigitVal(c) == CHOOSE n \in 0..9 : <<"0","1","2","3","4","5","6","7","8","9">>[n + 1] = c

\* int(s) of a digit string
RECURSIVE ToInt(_)
ToInt(s) ==
    IF s = <<>> THEN 0
    ELSE ToInt(SubSeq(s, 1, Len(s) - 1)) * 10 + DigitVal(s[Len(s)])

DigitChar(n) == <<"0","1","2","3","4","5","6","7","8","9">>[n + 1]

\* str(n) of a natural number
RECURSIVE ToStr(_)
ToStr(n) == IF n < 10 THEN <<DigitChar(n)>> ELSE ToStr(n \div 10) \o <<DigitChar(n % 10)>>

\* f"{n:02d}"
Pad02(n) == IF n < 10 THEN <<"0">> \o ToStr(n) ELSE ToStr(n)

\* str.split(sep) for a one-character separator
RECURSIVE Split(_, _)
Split(s, sep) ==
    IF \A i \in 1..Len(s) : s[i] # sep THEN <<s>>
    ELSE LET k == CHOOSE i \in 1..Len(s) :
                      s[i] = sep /\ \A j \in 1..(i - 1) : s[j] # sep
         IN <<SubSeq(s, 1, k - 1)>> \o Split(SubSeq(s, k + 1, Len(s)), sep)

RECURSIVE Pow10(_)
Pow10(n) == IF n = 0 THEN 1 ELSE 10 * Pow10(n - 1)

\* ------------------------------------------------------------------------
\* Column tables of ingest.py.
S_CTI0 == <<"C","-","T","I","-","0">>
S_CNACE == <<"C","-","N","A","C","E","I","D","X","-","0">>
S_FNOM == <<"F","-","U","I","D","X","N","O","M">>
S_FREAL == <<"F","-","U","I","D","X","R","E","A","L">>
S_FBESCH == <<"F","-","B","E","S","C","H","I","D","X">>
S_FNSB == <<"F","-","U","I","D","X","N","S","B">>
S_FRSB == <<"F","-","U","I","D","X","R","S","B">>
S_TIIDX == <<"T","I","I","D","X","-">>
S_NACEIDX == <<"N","A","C","E","I","D","X","-">>

\* REQUIRED_COLUMNS, in dictionary order: <<CSV column, field>>
REQUIRED_COLUMNS ==
    << <<S_CTI0, "period_key">>, <<S_CNACE, "nace_key">>, <<S_FNOM, "uidxnom">>,
       <<S_FREAL, "uidxreal">>, <<S_FBESCH, "beschidx">> >>
OPTIONAL_COLUMNS == << <<S_FNSB, "uidxnsb">>, <<S_FRSB, "uidxrsb">> >>
METRIC_COLUMNS == <<"uidxnom", "uidxreal", "beschidx", "uidxnsb", "uidxrsb">>
Metrics == {METRIC_COLUMNS[i] : i \in 1..Len(METRIC_COLUMNS)}

\* ------------------------------------------------------------------------
\* _parse_decimal: None, or the fixed-point value of the cleaned text.
\* Decimal() is modelled on optionally signed digit strings with at most one
\* point; any other text of the model's alphabet is an InvalidOperation.
\* sign is 1 or -1; ip and fp are the texts before and after the point
DecimalOfParts(sign, ip, fp) ==
    IF /\ ip \o fp # <<>>
       /\ \A i \in 1..Len(ip) : ip[i] \in Digits
       /\ \A i \in 1..Len(fp) : fp[i] \in Digits
       /\ Len(fp) <= DecPlaces
    THEN Some(sign * (ToInt(ip) * Pow10(DecPlaces) + ToInt(fp) * Pow10(DecPlaces - Len(fp))))
    ELSE None

DecimalOfSplit(sign, parts) ==
    IF Len(parts) = 1 THEN DecimalOfParts(sign, parts[1], <<>>)
    ELSE IF Len(parts) = 2 THEN DecimalOfParts(sign, parts[1], parts[2])
    ELSE None

DecimalOf(cleaned) ==
    IF cleaned # <<>> /\ Head(cleaned) = "-" THEN DecimalOfSplit(0 - 1, Split(Tail(cleaned), "."))
    ELSE IF cleaned # <<>> /\ Head(cleaned) = "+" THEN DecimalOfSplit(1, Split(Tail(cleaned), "."))
    ELSE DecimalOfSplit(1, Split(cleaned, "."))

DecimalOfStripped(cleaned) ==
    IF cleaned = <<>> THEN None
    ELSE DecimalOf(Replace(Replace(cleaned, <<" ">>, <<>>), <<",">>, <<".">>))

\* cell is None (a missing cell) or Some(text)
_parse_decimal(cell) ==
    IF ~cell.some THEN None ELSE DecimalOfStripped(Strip(cell.v))

\* ------------------------------------------------------------------------
\* _normalize_header
_normalize_header(value) ==
    Replace(Replace(Upper(LStripSet(Strip(value), {BOM})), <<" ">>, <<>>),
            <<"_">>, <<"-">>)

\* the test of the loop of _resolve_column, on the normalized texts
NormalizedMatch(normalized, target_norm) ==
    \/ normalized = target_norm
    \/ EndsWith(normalized, target_norm)
    \/ StartsWith(normalized, target_norm)

HeaderMatches(name, target) ==
    NormalizedMatch(_normalize_header(name), _normalize_header(target))

\* the least element of a non-empty set of positions, as Some; None if empty
FirstOf(positions) ==
    IF positions = {} THEN None
    ELSE Some(CHOOSE i \in positions : \A j \in positions : i <= j)

\* seq[pos.v] as Some, or None
ElementAt(seq, pos) == IF pos.some THEN Some(seq[pos.v]) ELSE None

\* _resolve_column: the first header that matches, or None
_resolve_column(fieldnames, target) ==
    ElementAt(fieldnames,
              FirstOf({i \in 1..Len(fieldnames) : HeaderMatches(fieldnames[i], target)}))

\* list.index(x): position of the first element equal to x (1-based)
IndexOf(seq, x) == FirstOf({i \in 1..Len(seq) : seq[i] = x})

\* "if resolved: required_map[column] = header.index(resolved)": an empty
\* header name is falsy
IndexIfResolved(header, resolved) ==
    IF resolved.some /\ resolved.v # <<>> THEN IndexOf(header, resolved.v) ELSE None

\* column index of a target resolved by header, or None
ResolveIndex(header, target) == IndexIfResolved(header, _resolve_column(header, target))

\* some sampled row holds at column idx a value starting with the sentinel
SniffHit(sample, idx, sentinel) ==
    \E r \in 1..Len(sample) :
        idx <= Len(sample[r]) /\ StartsWith(Strip(sample[r][idx]), sentinel)

\* content sniffing: first column holding, in the sampled rows, a value that
\* starts with the sentinel
SniffIndex(header, data_rows, sentinel) ==
    FirstOf({idx \in 1..Len(header) : SniffHit(Take(data_rows, SampleRows), idx, sentinel)})

\* sample_values of column idx: the stripped non-empty cells
SampleValues(sample, idx) ==
    {Strip(sample[r][idx]) : r \in {q \in 1..Len(sample) : idx <= Len(sample[q])}} \ {<<>>}

IsMonth(value) == IsDigit(value) /\ 1 <= ToInt(value) /\ ToInt(value) <= 12

AllMonths(sample_values) == sample_values # {} /\ \A value \in sample_values : IsMonth(value)

\* _find_month_index
_find_month_index(data_rows, header) ==
    FirstOf({idx \in 1..Len(header) :
                AllMonths(SampleValues(Take(data_rows, SampleRows), idx))})

\* ------------------------------------------------------------------------
\* _parse_csv_rows.  rows_raw is the list csv.reader yields: the header row,
\* then the data rows.  The result is [ok |-> TRUE, rows |-> ParsedRow list]
\* or the ValueError [ok |-> FALSE, missing |-> ..., headers |-> ...].

\* row[idx] if idx < len(row) else None
CellAt(row, idx) == IF idx <= Len(row) THEN Some(row[idx]) ELSE None

\* "not value": None and the empty string are falsy
Falsy(cell) == ~cell.some \/ cell.v = <<>>

\* required_map after header matching and the two content sniffers
RequiredIndex(header, data_rows, column) ==
    LET byName == ResolveIndex(header, column)
    IN IF byName.some THEN byName
       ELSE IF column = S_CTI0 THEN SniffIndex(header, data_rows, S_TIIDX)
       ELSE IF column = S_CNACE THEN SniffIndex(header, data_rows, S_NACEIDX)
       ELSE None

RECURSIVE RequiredMapFrom(_, _, _)
RequiredMapFrom(header, data_rows, columns) ==
    IF columns = <<>> THEN <<>>
    ELSE <<RequiredIndex(header, data_rows, Head(columns)[1])>>
             \o RequiredMapFrom(header, data_rows, Tail(columns))

\* position c holds the index of REQUIRED_COLUMNS[c], or None
RequiredMap(header, data_rows) == RequiredMapFrom(header, data_rows, REQUIRED_COLUMNS)

RECURSIVE OptionalMapFrom(_, _)
OptionalMapFrom(header, columns) ==
    IF columns = <<>> THEN <<>>
    ELSE <<ResolveIndex(header, Head(columns)[1])>> \o OptionalMapFrom(header, Tail(columns))

\* position c holds the index of OPTIONAL_COLUMNS[c], or None
OptionalMap(header) == OptionalMapFrom(header, OPTIONAL_COLUMNS)

\* the period key of a data row: stripped, with the inferred month appended
\* to a bare 4-digit year
WithMonth(stripped, has_month, month_value) ==
    IF Len(stripped) = 4 /\ IsDigit(stripped) /\ has_month
          /\ month_value # <<>> /\ IsDigit(month_value)
    THEN stripped \o Pad02(ToInt(month_value))
    ELSE stripped

PeriodKeyOf(row, period_cell, month_idx) ==
    WithMonth(Strip(period_cell), month_idx.some,
              IF month_idx.some /\ month_idx.v <= Len(row) THEN row[month_idx.v] ELSE <<>>)

\* values of one data row: every REQUIRED_COLUMNS and OPTIONAL_COLUMNS field
RowValues(row, required_map, optional_map) ==
    LET req(c) == _parse_decimal(CellAt(row, required_map[c].v))
        opt(c) == IF optional_map[c].some
                  THEN _parse_decimal(CellAt(row, optional_map[c].v)) ELSE None
    IN [period_key |-> req(1), nace_key |-> req(2), uidxnom |-> req(3),
        uidxreal |-> req(4), beschidx |-> req(5), uidxnsb |-> opt(1),
        uidxrsb |-> opt(2)]

\* the body of the loop over data_rows (ingest.py lines 155-175): the
\* ParsedRow of one row, or nothing for a skipped row
ParseDataRow(row, period_key, nace_key, required_map, optional_map, month_idx) ==
    IF Falsy(period_key) \/ Falsy(nace_key) THEN <<>>
    ELSE << [period_key |-> PeriodKeyOf(row, period_key.v, month_idx),
             nace_key |-> nace_key.v,
             values |-> RowValues(row, required_map, optional_map)] >>

RECURSIVE ParseDataRows(_, _, _, _)
ParseDataRows(data_rows, required_map, optional_map, month_idx) ==
    IF data_rows = <<>> THEN <<>>
    ELSE ParseDataRow(Head(data_rows), CellAt(Head(data_rows), required_map[1].v),
                      CellAt(Head(data_rows), required_map[2].v),
                      required_map, optional_map, month_idx)
             \o ParseDataRows(Tail(data_rows), required_map, optional_map, month_idx)

\* variant: only the first of the lacking columns is named
RECURSIVE MissingFirst(_, _)
MissingFirst(required_map, columns) ==
    IF columns = <<>> THEN <<>>
    ELSE IF Head(required_map).some THEN MissingFirst(Tail(required_map), Tail(columns))
    ELSE <<Head(columns)[1]>>

\* the names of the REQUIRED_COLUMNS that required_map lacks, in order
RECURSIVE MissingColumns(_, _)
MissingColumns(required_map, columns) ==
    IF columns = <<>> THEN <<>>
    ELSE (IF Head(required_map).some THEN <<>> ELSE <<Head(columns)[1]>>)
             \o MissingColumns(Tail(required_map), Tail(columns))

\* ingest.py lines 139-176
ParseResolved(header, data_rows, required_map, missing) ==
    IF missing # <<>>
    THEN [ok |-> FALSE, missing |-> missing, headers |-> Take(header, HeaderPreview)]
    ELSE [ok |-> TRUE,
          rows |-> ParseDataRows(data_rows, required_map, OptionalMap(header),
                                 _find_month_index(data_rows, header))]

ParseWithMap(header, data_rows, required_map) ==
    ParseResolved(header, data_rows, required_map,
                  MissingColumns(required_map, REQUIRED_COLUMNS))

_parse_csv_rows(rows_raw) ==
    IF rows_raw = <<>> THEN [ok |-> TRUE, rows |-> <<>>]
    ELSE ParseWithMap(Head(rows_raw), Tail(rows_raw),
                      RequiredMap(Head(rows_raw), Tail(rows_raw)))

\* ------------------------------------------------------------------------
\* _period_to_date: [kind |-> "date", ym |-> year * 100 + month], or
\* [kind |-> "none"], or [kind |-> "error"] when strptime raises ValueError.

\* datetime.strptime(cleaned, "%Y%m") on six digits: the month must be
\* 01..12 and the year at least 1
\* datetime.strptime(cleaned, "%Y") on four digits: the year at least 1
DateOrError(year, month) ==
    IF year >= 1 /\ month >= 1 /\ month <= 12
    THEN [kind |-> "date", ym |-> year * 100 + month]
    ELSE [kind |-> "error"]

Strptime(cleaned) ==
    DateOrError(ToInt(SubSeq(cleaned, 1, 4)),
                IF Len(cleaned) = 6 THEN ToInt(SubSeq(cleaned, 5, 6)) ELSE 1)

\* ingest.py lines 194-201: the text the two patterns are tried on
CleanedPeriod(stripped, parts) ==
    IF Len(parts) = 1 THEN stripped
    ELSE IF Len(parts[Len(parts)]) = 6 THEN parts[Len(parts)]
    ELSE IF Len(parts[Len(parts)]) = 2 /\ Len(parts[1]) = 4 THEN parts[1] \o parts[2]
    ELSE IF Len(parts[Len(parts)]) = 4 THEN parts[Len(parts)]
    ELSE stripped

\* ingest.py lines 203-207
DateOfCleaned(cleaned) ==
    IF Len(cleaned) \in {4, 6} /\ IsDigit(cleaned) THEN Strptime(cleaned)
    ELSE [kind |-> "none"]

_period_to_date(period_key) ==
    DateOfCleaned(CleanedPeriod(Strip(period_key), Split(Strip(period_key), "-")))

\* ------------------------------------------------------------------------
\* The store.  raw.statat_trade_raw and marts.trade_index are sets of rows;
\* the two INSERT ... ON CONFLICT ... DO UPDATE statements of ingest().

RawKey(r) == <<r.period_key, r.nace_key>>
MartKey(r) == <<r.period_date, r.nace_code, r.metric>>

\* raw_rows entry of a parsed row (ingest.py lines 228-240)
RawRowOf(row, ingested_at) ==
    [period_key |-> row.period_key, nace_key |-> row.nace_key,
     uidxnom |-> row.values["uidxnom"], uidxreal |-> row.values["uidxreal"],
     beschidx |-> row.values["beschidx"], uidxnsb |-> row.values["uidxnsb"],
     uidxrsb |-> row.values["uidxrsb"], ingested_at |-> ingested_at]

RECURSIVE RawRows(_, _)
RawRows(parsed_rows, ingested_at) ==
    IF parsed_rows = <<>> THEN <<>>
    ELSE <<RawRowOf(Head(parsed_rows), ingested_at)>>
             \o RawRows(Tail(parsed_rows), ingested_at)

\* variant: a plain INSERT, without the ON CONFLICT clause taking the place of
\* the stored row
RawInsertRow(table, row) ==
    table \cup {row}

\* variant: ON CONFLICT DO NOTHING, the stored row wins
RawKeepRow(table, row) ==
    IF \E r \in table : RawKey(r) = RawKey(row) THEN table ELSE table \cup {row}

\* one proposed row of the raw INSERT: insert, or on a key conflict overwrite
\* the five metric columns and ingested_at
RawUpsertRow(table, row) ==
    {r \in table : RawKey(r) # RawKey(row)} \cup {row}

\* one proposed row of the mart INSERT: insert, or on a key conflict overwrite
\* value and ingested_at
MartUpsertRow(table, row) ==
    {r \in table : MartKey(r) # MartKey(row)} \cup {row}

\* One INSERT statement over a page of rows.  A statement that proposes the
\* same key twice fails ("ON CONFLICT DO UPDATE command cannot affect row a
\* second time"): [ok |-> FALSE].
RECURSIVE RawStatement(_, _, _)
RawStatement(table, page, touched) ==
    IF page = <<>> THEN [ok |-> TRUE, table |-> table]
    ELSE IF RawKey(Head(page)) \in touched THEN [ok |-> FALSE, table |-> table]
    ELSE RawStatement(RawUpsertRow(table, Head(page)), Tail(page),
                      touched \cup {RawKey(Head(page))})

RECURSIVE MartStatement(_, _, _)
MartStatement(table, page, touched) ==
    IF page = <<>> THEN [ok |-> TRUE, table |-> table]
    ELSE IF MartKey(Head(page)) \in touched THEN [ok |-> FALSE, table |-> table]
    ELSE MartStatement(MartUpsertRow(table, Head(page)), Tail(page),
                       touched \cup {MartKey(Head(page))})

\* extras.execute_values: one statement per page of page_size rows
RECURSIVE RawExecuteValues(_, _)
RawExecuteValues(table, rows) ==
    IF rows = <<>> THEN [ok |-> TRUE, table |-> table]
    ELSE \* the next page, then the pages after it unless the statement fails
         LET st == RawStatement(table, Take(rows, PageSize), {})
         IN IF st.ok THEN RawExecuteValues(st.table, Drop(rows, Min(PageSize, Len(rows))))
            ELSE st

RECURSIVE MartExecuteValues(_, _)
MartExecuteValues(table, rows) ==
    IF rows = <<>> THEN [ok |-> TRUE, table |-> table]
    ELSE LET st == MartStatement(table, Take(rows, PageSize), {})
         IN IF st.ok THEN MartExecuteValues(st.table, Drop(rows, Min(PageSize, Len(rows))))
            ELSE st

\* nace_code = row.nace_key.replace("NACEIDX-", "")
NaceCode(nace_key) == Replace(nace_key, S_NACEIDX, <<>>)

\* variant: "if not value" in place of "if value is None", dropping zeros
RECURSIVE UnpivotTruthy(_, _, _, _, _)
UnpivotTruthy(period_date, nace_code, values, metrics, ingested_at) ==
    IF metrics = <<>> THEN <<>>
    ELSE (IF values[Head(metrics)].some /\ values[Head(metrics)].v # 0
          THEN << [period_date |-> period_date, nace_code |-> nace_code,
                   metric |-> Head(metrics), value |-> values[Head(metrics)].v,
                   ingested_at |-> ingested_at] >>
          ELSE <<>>)
             \o UnpivotTruthy(period_date, nace_code, values, Tail(metrics), ingested_at)

\* the mart rows of one parsed row: none when the date is unresolved, else
\* one per non-null metric, in METRIC_COLUMNS order (ingest.py lines 261-277)
RECURSIVE Unpivot(_, _, _, _, _)
Unpivot(period_date, nace_code, values, metrics, ingested_at) ==
    IF metrics = <<>> THEN <<>>
    ELSE (IF values[Head(metrics)].some
          THEN << [period_date |-> period_date, nace_code |-> nace_code,
                   metric |-> Head(metrics), value |-> values[Head(metrics)].v,
                   ingested_at |-> ingested_at] >>
          ELSE <<>>)
             \o Unpivot(period_date, nace_code, values, Tail(metrics), ingested_at)

MartRowsOfDated(row, period_date, ingested_at) ==
    IF period_date.kind # "date" THEN <<>>
    ELSE Unpivot(period_date.ym, NaceCode(row.nace_key), row.values, METRIC_COLUMNS,
                 ingested_at)

MartRowsOfRow(row, ingested_at) ==
    MartRowsOfDated(row, _period_to_date(row.period_key), ingested_at)

RECURSIVE MartRows(_, _)
MartRows(parsed_rows, ingested_at) ==
    IF parsed_rows = <<>> THEN <<>>
    ELSE MartRowsOfRow(Head(parsed_rows), ingested_at)
             \o MartRows(Tail(parsed_rows), ingested_at)

\* variant: an unresolved period raises too, in place of being skipped
PeriodRaisesUnresolved(parsed_rows) ==
    \E i \in 1..Len(parsed_rows) : _period_to_date(parsed_rows[i].period_key).kind # "date"

\* strptime raises inside the mart loop for some row
PeriodRaises(parsed_rows) ==
    \E i \in 1..Len(parsed_rows) : _period_to_date(parsed_rows[i].period_key).kind = "error"

\* the summary returned by ingest() (ingest.py lines 292-307)
\* max of a set of dates, as Some; None if empty
LastOf(dates) ==
    IF dates = {} THEN None ELSE Some(CHOOSE d \in dates : \A e \in dates : d >= e)

SummaryOf(parsed_rows, valid_dates, mode) ==
    [rows_loaded |-> Len(parsed_rows),
     distinct_nace |-> Cardinality({parsed_rows[i].nace_key : i \in 1..Len(parsed_rows)}),
     min_date |-> FirstOf(valid_dates),
     max_date |-> LastOf(valid_dates),
     source_mode |-> mode]

\* the dates the period keys resolve to
ValidDates(dates) == {d.ym : d \in {q \in dates : q.kind = "date"}}

Summary(parsed_rows, mode) ==
    SummaryOf(parsed_rows,
              ValidDates({_period_to_date(parsed_rows[i].period_key) :
                             i \in 1..Len(parsed_rows)}),
              mode)

EmptySummary(mode) ==
    [rows_loaded |-> 0, distinct_nace |-> 0, min_date |-> None, max_date |-> None,
     source_mode |-> mode]

\* ------------------------------------------------------------------------
\* Inputs: CSV documents, as csv.reader splits them.
P_202301 == <<"2","0","2","3","0","1">>
P_202302 == <<"2","0","2","3","0","2">>
P_202313 == <<"2","0","2","3","1","3">>
P_Q1 == <<"Q","1">>
N_47 == <<"4","7">>
C_1 == <<"1">>
C_2 == <<"2">>
C_3 == <<"3">>
C_0 == <<"0">>
C_2c5 == <<"2",",","5">>
C_1c5 == <<" ","1",",","5">>
C_x == <<"x">>
C_e == <<>>

StdHeader == <<S_CTI0, S_CNACE, S_FNOM, S_FREAL, S_FBESCH, S_FNSB, S_FRSB>>
\* two required metric columns are absent
ShortHeader == <<S_CTI0, S_CNACE, S_FNOM>>
\* the two key columns are renamed: only content sniffing can find them
RenamedHeader == <<<<"p","e","r","i","o","d">>, <<"s","e","c","t","o","r">>,
                   S_FNOM, S_FREAL, S_FBESCH>>

\* data rows: period, category, uidxnom, uidxreal, beschidx, uidxnsb, uidxrsb
Row1 == <<P_202301, S_NACEIDX \o N_47, C_1, C_2, C_0, C_e, C_e>>
Row2 == <<P_202301, S_NACEIDX \o N_47, C_e, C_2c5, C_x, C_e, C_3>>
Row3 == <<S_TIIDX \o P_202301, N_47, C_2, C_2, C_e, C_e, C_e>>
Row4 == <<P_202302, S_NACEIDX \o N_47, C_3, C_e, C_1c5, C_e, C_e>>
Row5 == <<P_Q1, S_NACEIDX \o N_47, C_1, C_1, C_1, C_e, C_e>>
Row6 == <<P_202313, S_NACEIDX \o N_47, C_1, C_1, C_1, C_e, C_e>>
Row7 == <<S_TIIDX \o P_202302, S_NACEIDX \o N_47, C_1, C_2, C_3>>
\* no period key: the row is skipped
Row8 == <<C_e, S_NACEIDX \o N_47, C_1, C_1, C_1, C_e, C_e>>
\* only whitespace for the period key, for the category key; no category cell
Row9 == <<<<" ">>, S_NACEIDX \o N_47, C_1, C_1, C_1, C_e, C_e>>
Row10 == <<P_202301, <<" ", " ">>, C_1, C_1, C_1, C_e, C_e>>
Row11 == <<P_202301>>
\* rows of a document with a month column: a bare year with the month 3, 12,
\* " 3", none, and a 6-digit period
C_2023 == <<"2", "0", "2", "3">>
Row12 == <<C_2023, S_NACEIDX \o N_47, C_2c5, C_2c5, C_2c5, C_3>>
Row13 == <<C_2023, S_NACEIDX \o N_47, C_2c5, C_2c5, C_2c5, <<"1", "2">>>>
Row14 == <<C_2023, S_NACEIDX \o N_47, C_2c5, C_2c5, C_2c5, <<" ", "3">>>>
Row15 == <<C_2023, S_NACEIDX \o N_47, C_2c5, C_2c5, C_2c5, C_e>>
Row16 == <<P_202301, S_NACEIDX \o N_47, C_2c5, C_2c5, C_2c5, C_1>>
Rows == <<Row1, Row2, Row3, Row4, Row5, Row6, Row7, Row8, Row9, Row10, Row11,
          Row12, Row13, Row14, Row15, Row16>>
\* the five required columns and a column of months
MonthHeader == <<S_CTI0, S_CNACE, S_FNOM, S_FREAL, S_FBESCH, <<"M", "O", "N", "T", "H">>>>
Headers == [std |-> StdHeader, short |-> ShortHeader, renamed |-> RenamedHeader,
            month |-> MonthHeader]

\* A document is named by its header and the numbers of its rows; header
\* "none" names the empty text.
DocOf(name) ==
    IF name.header = "none" THEN <<>>
    ELSE <<Headers[name.header]>> \o [i \in 1..Len(name.rows) |-> Rows[name.rows[i]]]

\* the documents the remote source serves in the model
LiveDocs == {[header |-> "std", rows |-> <<1>>], [header |-> "std", rows |-> <<5, 4>>],
             [header |-> "short", rows |-> <<1>>]}

RowSeqs(n) == UNION {[1..k -> 1..5] : k \in 0..n}

Docs ==
    {[header |-> "std", rows |-> rs] : rs \in RowSeqs(MaxRows)}
    \cup {[header |-> h, rows |-> rs] :
              h \in {"short", "renamed"}, rs \in {<<>>, <<1>>, <<7>>}}
    \cup {[header |-> "std", rows |-> <<6>>], [header |-> "std", rows |-> <<1, 6>>],
          [header |-> "std", rows |-> <<8>>], [header |-> "std", rows |-> <<8, 1>>],
          [header |-> "none", rows |-> <<>>]}
    \cup LiveDocs

\* _parse_csv_rows of every document of the model, computed once
ParseTable == {<<d, _parse_csv_rows(DocOf(d))>> : d \in Docs}
ParseCache(d) == (CHOOSE p \in ParseTable : p[1] = d)[2]

\* ------------------------------------------------------------------------
\* _load_source: the text of the fixture or of the remote answer, or the
\* exception raised.  load is what the environment yields for the read or the
\* fetch: [kind |-> "text", doc |-> name], [kind |-> "os_error"] (missing
\* file, timeout, connection error, non-2xx answer) or [kind |-> "value_error"]
\* (undecodable bytes, a malformed URL: exceptions that are ValueErrors).
_load_source(mode, load) ==
    IF mode \in {"mock", "live"} THEN load
    ELSE [kind |-> "value_error"]

\* the transaction of ingest() (ingest.py lines 225-290): both upserts, then
\* commit; any exception rolls both back.  r and m are the outcomes of the
\* two execute_values calls, raises tells whether strptime raises in the loop
\* between them.
\* variant: the raw upsert is committed on its own
RawCommittedFirst(r, raises, m, raw_t, mart_t) ==
    IF ~r.ok THEN [outcome |-> "Exception", raw |-> raw_t, mart |-> mart_t]
    ELSE IF raises THEN [outcome |-> "ValueError", raw |-> r.table, mart |-> mart_t]
    ELSE IF ~m.ok THEN [outcome |-> "Exception", raw |-> r.table, mart |-> mart_t]
    ELSE [outcome |-> "ok", raw |-> r.table, mart |-> m.table]

TransactionOutcome(r, raises, m, raw_t, mart_t) ==
    IF ~r.ok THEN [outcome |-> "Exception", raw |-> raw_t, mart |-> mart_t]
    ELSE IF raises THEN [outcome |-> "ValueError", raw |-> raw_t, mart |-> mart_t]
    ELSE IF ~m.ok THEN [outcome |-> "Exception", raw |-> raw_t, mart |-> mart_t]
    ELSE [outcome |-> "ok", raw |-> r.table, mart |-> m.table]

Transaction(parsed_rows, ingested_at, raw_t, mart_t) ==
    TransactionOutcome(RawExecuteValues(raw_t, RawRows(parsed_rows, ingested_at)),
                       PeriodRaises(parsed_rows),
                       MartExecuteValues(mart_t, MartRows(parsed_rows, ingested_at)),
                       raw_t, mart_t)

\* The result of ingest(mode): outcome "ok" with the summary, or the
\* exception raised ("ValueError", or "Exception" for any other).  stage
\* names where the run ended; conn tells whether get_conn() was called.
Ended(outcome, stage, conn, summary, missing, raw_t, mart_t) ==
    [outcome |-> outcome, stage |-> stage, conn |-> conn, summary |-> summary,
     missing |-> missing, raw |-> raw_t, mart |-> mart_t]

\* ingest.py lines 292-307, after the transaction t
IngestStored(t, parsed_rows, mode) ==
    Ended(t.outcome, "store", TRUE,
          IF t.outcome = "ok" THEN Some(Summary(parsed_rows, mode)) ELSE None,
          <<>>, t.raw, t.mart)

\* variant: the connection is opened before the empty check
IngestParsedConnectFirst(parsed, mode, db, ingested_at, raw_t, mart_t) ==
    IF ~parsed.ok
    THEN Ended("ValueError", "parse", FALSE, None, parsed.missing, raw_t, mart_t)
    ELSE IF db = "down"
    THEN Ended("Exception", "connect", TRUE, None, <<>>, raw_t, mart_t)
    ELSE IF parsed.rows = <<>>
    THEN Ended("ok", "empty", TRUE, Some(EmptySummary(mode)), <<>>, raw_t, mart_t)
    ELSE IngestStored(Transaction(parsed.rows, ingested_at, raw_t, mart_t),
                      parsed.rows, mode)

\* ingest.py lines 214-307, after the parse
IngestParsed(parsed, mode, db, ingested_at, raw_t, mart_t) ==
    IF ~parsed.ok
    THEN Ended("ValueError", "parse", FALSE, None, parsed.missing, raw_t, mart_t)
    ELSE IF parsed.rows = <<>>
    THEN Ended("ok", "empty", FALSE, Some(EmptySummary(mode)), <<>>, raw_t, mart_t)
    ELSE IF db = "down"
    THEN Ended("Exception", "connect", TRUE, None, <<>>, raw_t, mart_t)
    ELSE IngestStored(Transaction(parsed.rows, ingested_at, raw_t, mart_t),
                      parsed.rows, mode)

\* ingest.py lines 212-213, after the load
IngestLoaded(src, mode, db, ingested_at, raw_t, mart_t) ==
    IF src.kind = "value_error"
    THEN Ended("ValueError", "load", FALSE, None, <<>>, raw_t, mart_t)
    ELSE IF src.kind = "os_error"
    THEN Ended("Exception", "load", FALSE, None, <<>>, raw_t, mart_t)
    ELSE IngestParsed(ParseCache(src.doc), mode, db, ingested_at, raw_t, mart_t)

IngestRun(mode, load, db, ingested_at, raw_t, mart_t) ==
    IngestLoaded(_load_source(mode, load), mode, db, ingested_at, raw_t, mart_t)

\* what the environment yields for one POST /ingest: the mode asked for, the
\* outcome of reading the fixture or fetching the URL, the state of the store
TextLoads == {[kind |-> "text", doc |-> d] : d \in Docs}
FailedLoads == {[kind |-> "os_error"], [kind |-> "value_error"]}
Envs ==
    {[mode |-> "mock", load |-> l, db |-> "up"] : l \in TextLoads \cup FailedLoads}
    \cup {[mode |-> "mock", load |-> [kind |-> "text", doc |-> d], db |-> "down"] :
             d \in LiveDocs \cup {[header |-> "none", rows |-> <<>>]}}
    \cup {[mode |-> "live", load |-> l, db |-> "up"] :
             l \in {[kind |-> "text", doc |-> d] : d \in LiveDocs} \cup FailedLoads}
    \cup {[mode |-> "bogus", load |-> [kind |-> "os_error"], db |-> "up"]}

\* ------------------------------------------------------------------------
\* State.
VARIABLES
    statat_trade_raw,  \* raw.statat_trade_raw: committed rows
    trade_index,       \* marts.trade_index: committed rows
    clock,   \* datetime.utcnow(), one tick per POST /ingest
    run,     \* the last call of ingest(): its inputs, locals and outcome
    rerun,   \* history: the last call of ingest() was given the same source
             \* content as the successful call before it
    resp,    \* the last HTTP exchange: the request and the response
    calls,   \* overlapping calls of ingest(): each call's position and locals
    commits, \* the calls whose transaction committed, in commit order
    fn_call  \* the last call of a helper function on its own: arguments, result

vars == <<statat_trade_raw, trade_index, clock, run, rerun, resp, calls, commits, fn_call>>

\* the callers of ingest() that may overlap
Calls == 1..MaxCalls

IdleCall == [pc |-> "idle", at |-> 0, doc |-> [header |-> "none", rows |-> <<>>],
             raw_rows |-> <<>>, mart_rows |-> <<>>, i |-> 1,
             undo_raw |-> {}, undo_mart |-> {}]

NoRun == [id |-> 0, mode |-> "", load |-> [kind |-> "none"], db |-> "", at |-> 0,
          conn |-> FALSE, summary |-> None, missing |-> <<>>,
          outcome |-> "none", stage |-> ""]


Init ==
    /\ statat_trade_raw = {}
    /\ trade_index = {}
    /\ clock = 0
    /\ run = NoRun
    /\ rerun = FALSE
    /\ resp = [op |-> "none", status |-> 0]
    /\ calls = [t \in Calls |-> IdleCall]
    /\ commits = <<>>
    /\ fn_call = [fn |-> "none"]

\* ------------------------------------------------------------------------
\* POST /ingest (main.py lines 54-63).

\* Query("mock", pattern="^(mock|live)$"): the framework answers 422 to a
\* mode the pattern rejects, before the handler body runs
ModeAccepted(mode) == mode \in {"mock", "live"}

\* the handler's mapping of the outcome of ingest_service.ingest(mode)
\* (a ValueError's detail is str(exc): here the stage that raised it and the
\* columns it names)
IngestResponse(mode, r) ==
    IF r.outcome = "ok"
    THEN [op |-> "ingest", mode |-> mode, status |-> 200, body |-> r.summary.v]
    ELSE IF r.outcome = "ValueError"
    THEN [op |-> "ingest", mode |-> mode, status |-> 400,
          detail |-> [stage |-> r.stage, missing |-> r.missing]]
    ELSE [op |-> "ingest", mode |-> mode, status |-> 500, detail |-> "Ingestion failed"]

PostIngest(e) ==
    /\ clock < MaxRuns
    /\ clock' = clock + 1
    /\ IF ~ModeAccepted(e.mode)
       THEN /\ resp' = [op |-> "ingest", mode |-> e.mode, status |-> 422,
                          detail |-> "string_pattern_mismatch"]
            /\ UNCHANGED <<statat_trade_raw, trade_index, run, rerun, calls, commits, fn_call>>
       ELSE \E r \in {IngestRun(e.mode, e.load, e.db, clock + 1,
                                 statat_trade_raw, trade_index)} :
               /\ statat_trade_raw' = r.raw
               /\ trade_index' = r.mart
               /\ run' = [id |-> clock + 1, mode |-> e.mode, load |-> e.load,
                          db |-> e.db, at |-> clock + 1, conn |-> r.conn,
                          summary |-> r.summary, missing |-> r.missing,
                          outcome |-> r.outcome, stage |-> r.stage]
               /\ rerun' = (run.outcome = "ok" /\ e.load = run.load)
               /\ resp' = IngestResponse(e.mode, r)
               /\ UNCHANGED <<calls, commits, fn_call>>

\* ------------------------------------------------------------------------
\* GET /latest (main.py lines 111-144).
ALLOWED_METRICS == {"uidxnom", "uidxreal", "beschidx", "uidxnsb", "uidxrsb"}

\* variant: ORDER BY period_date ASC
RECURSIVE OrderByDateAsc(_)
OrderByDateAsc(rows) ==
    IF rows = {} THEN <<>>
    ELSE LET low == CHOOSE r \in rows : \A q \in rows : q.period_date >= r.period_date
         IN <<low>> \o OrderByDateAsc(rows \ {low})

\* SELECT period_date, value ... WHERE nace_code = %s AND metric = %s
\* ORDER BY period_date DESC LIMIT n
RECURSIVE OrderByDateDesc(_)
OrderByDateDesc(rows) ==
    IF rows = {} THEN <<>>
    ELSE LET top == CHOOSE r \in rows : \A q \in rows : q.period_date <= r.period_date
         IN <<top>> \o OrderByDateDesc(rows \ {top})

LatestQuery(table, nace, metric) ==
    Take(OrderByDateDesc({r \in table : r.nace_code = nace /\ r.metric = metric}), 2)

RECURSIVE Gcd(_, _)
Gcd(a, b) == IF b = 0 THEN a ELSE Gcd(b, a % b)
Abs(a) == IF a < 0 THEN 0 - a ELSE a

\* the quotient n / d as a fraction in lowest terms, d # 0
Ratio(n, d) ==
    LET g == Gcd(Abs(n), Abs(d))
        sgn == IF d < 0 THEN 0 - 1 ELSE 1
    IN [num |-> sgn * (n \div g), den |-> sgn * (d \div g)]

\* main.py lines 127-144
LatestBody(nace, metric, latest, previous_value) ==
    [nace |-> nace, metric |-> metric,
     latest_date |-> latest.period_date,
     latest_value |-> latest.value,
     previous_value |-> previous_value,
     delta |-> IF previous_value.some THEN Some(latest.value - previous_value.v)
               ELSE None,
     delta_percent |-> IF previous_value.some /\ previous_value.v # 0
                       THEN Some(Ratio((latest.value - previous_value.v) * 100,
                                       previous_value.v))
                       ELSE None]

\* main.py lines 124-128
LatestOfRows(rows, nace, metric) ==
    IF rows = <<>>
    THEN [op |-> "latest", nace |-> nace, metric |-> metric, status |-> 404,
          detail |-> "No data for query"]
    ELSE [op |-> "latest", nace |-> nace, metric |-> metric, status |-> 200,
          body |-> LatestBody(nace, metric, rows[1],
                              IF Len(rows) > 1 THEN Some(rows[2].value) ELSE None)]

LatestResponse(table, nace, metric) ==
    IF metric \notin ALLOWED_METRICS
    THEN [op |-> "latest", nace |-> nace, metric |-> metric, status |-> 400,
          detail |-> "Invalid metric"]
    ELSE LatestOfRows(LatestQuery(table, nace, metric), nace, metric)

QueryNaces == {N_47}
QueryMetrics == {"uidxnom", "beschidx", "value"}

GetLatest(nace, metric) ==
    /\ resp' = LatestResponse(trade_index, nace, metric)
    /\ UNCHANGED <<statat_trade_raw, trade_index, clock, run, rerun, calls, commits, fn_call>>

\* ------------------------------------------------------------------------
\* GET /insights/nominal-vs-real (main.py lines 147-175).

\* SELECT period_date, metric, value ... WHERE nace_code = %s
\* AND metric IN ('uidxnom', 'uidxreal') ORDER BY period_date DESC
NominalRealQuery(table, nace) ==
    OrderByDateDesc({r \in table : r.nace_code = nace /\ r.metric \in {"uidxnom", "uidxreal"}})

\* metric_map.get(metric) over the rows of the latest date
MetricAt(latest_rows, metric) ==
    IF \E r \in latest_rows : r.metric = metric
    THEN Some((CHOOSE r \in latest_rows : r.metric = metric).value)
    ELSE None

\* main.py lines 164-175
NominalRealBody(nace, latest_date, uidxnom, uidxreal) ==
    [nace |-> nace, period_date |-> latest_date, uidxnom |-> uidxnom,
     uidxreal |-> uidxreal,
     gap |-> IF uidxnom.some /\ uidxreal.some THEN Some(uidxnom.v - uidxreal.v) ELSE None]

\* main.py lines 161-163
NominalRealOfLatest(nace, latest_date, latest_rows) ==
    NominalRealBody(nace, latest_date, MetricAt(latest_rows, "uidxnom"),
                    MetricAt(latest_rows, "uidxreal"))

\* main.py lines 158-175
NominalRealResponse(rows, nace) ==
    IF rows = <<>>
    THEN [op |-> "nominal_vs_real", nace |-> nace, status |-> 404,
          detail |-> "No data for query"]
    ELSE [op |-> "nominal_vs_real", nace |-> nace, status |-> 200,
          body |-> NominalRealOfLatest(nace, rows[1].period_date,
                       {rows[n] : n \in {k \in 1..Len(rows) :
                                            rows[k].period_date = rows[1].period_date}})]

nominal_vs_real(nace) ==
    /\ resp' = NominalRealResponse(NominalRealQuery(trade_index, nace), nace)
    /\ UNCHANGED <<statat_trade_raw, trade_index, clock, run, rerun, calls, commits, fn_call>>

\* ------------------------------------------------------------------------
\* Overlapping calls of ingest() (ingest.py lines 225-290, db.py lines 8-10).
\* Every call opens a connection of its own and runs one transaction; nothing
\* in the application keeps two calls apart.  The store runs the transactions
\* under row locks: an upsert of a key waits while another open transaction
\* holds a write of that key, and keeps its own lock until commit or
\* rollback.  Here the two tables hold the newest version of every row,
\* uncommitted writes included; each call keeps the versions it replaced.

\* the documents overlapping calls ingest
ConcDocs ==
    {[header |-> "std", rows |-> rs] : rs \in {<<1>>, <<2>>, <<1, 4>>, <<4, 1>>, <<1, 2>>, <<6>>}}

Open(c) == c.pc \in {"raw", "mart"}

\* position i of a statement's page
PageOf(i) == (i - 1) \div PageSize

\* the statement at hand already proposed the key of row i
ProposedTwice(keys, i) ==
    \E j \in 1..(i - 1) : PageOf(j) = PageOf(i) /\ keys[j] = keys[i]

\* variant: no row lock, a write never waits
NeverBlocked(cs, t, table, key) == FALSE

\* another open transaction holds a write of the key
Blocked(cs, t, table, key) ==
    \E u \in Calls \ {t} :
        /\ Open(cs[u])
        /\ \E w \in (IF table = "raw" THEN cs[u].undo_raw ELSE cs[u].undo_mart) :
              w[1] = key

\* the row of a table with a key, as Some, or None
RawRowAt(table_rows, key) ==
    IF \E r \in table_rows : RawKey(r) = key
    THEN Some(CHOOSE r \in table_rows : RawKey(r) = key)
    ELSE None

MartRowAt(table_rows, key) ==
    IF \E r \in table_rows : MartKey(r) = key
    THEN Some(CHOOSE r \in table_rows : MartKey(r) = key)
    ELSE None

\* the versions a transaction replaced, with the first one kept per key
Remember(undo, key, before) ==
    IF \E w \in undo : w[1] = key THEN undo ELSE undo \cup {<<key, before>>}

\* rollback: every key the transaction wrote gets back the version it replaced
RestoreRaw(table_rows, undo) ==
    {r \in table_rows : \A w \in undo : w[1] # RawKey(r)}
        \cup {w[2].v : w \in {x \in undo : x[2].some}}

RestoreMart(table_rows, undo) ==
    {r \in table_rows : \A w \in undo : w[1] # MartKey(r)}
        \cup {w[2].v : w \in {x \in undo : x[2].some}}

\* the key the call's next write proposes, for a call in the middle of a
\* statement; None otherwise
NextWrite(c) ==
    IF c.pc = "raw" /\ c.i <= Len(c.raw_rows)
    THEN Some([table |-> "raw", key |-> RawKey(c.raw_rows[c.i])])
    ELSE IF c.pc = "mart" /\ c.i <= Len(c.mart_rows)
    THEN Some([table |-> "mart", key |-> MartKey(c.mart_rows[c.i])])
    ELSE None

Waiting(cs, t) ==
    NextWrite(cs[t]).some
        /\ Blocked(cs, t, NextWrite(cs[t]).v.table, NextWrite(cs[t]).v.key)

\* t waits for a write of u
WaitsFor(cs, t, u) ==
    /\ u # t
    /\ Waiting(cs, t)
    /\ Open(cs[u])
    /\ \E w \in (IF NextWrite(cs[t]).v.table = "raw" THEN cs[u].undo_raw
                 ELSE cs[u].undo_mart) : w[1] = NextWrite(cs[t]).v.key

\* a chain of at most n waits leads from t to u
RECURSIVE WaitChain(_, _, _, _)
WaitChain(cs, t, u, n) ==
    n > 0 /\ (WaitsFor(cs, t, u)
                 \/ \E v \in Calls \ {t, u} : WaitsFor(cs, t, v) /\ WaitChain(cs, v, u, n - 1))

Failed(c) == [c EXCEPT !.pc = "failed", !.undo_raw = {}, !.undo_mart = {}]

\* the exception leaves "with get_conn() as conn": the transaction is rolled
\* back
Rollback(t) ==
    /\ statat_trade_raw' = RestoreRaw(statat_trade_raw, calls[t].undo_raw)
    /\ trade_index' = RestoreMart(trade_index, calls[t].undo_mart)
    /\ calls' = [calls EXCEPT ![t] = Failed(calls[t])]
    /\ UNCHANGED <<clock, run, rerun, resp, commits, fn_call>>

\* ingest.py lines 212-240: the source is read and parsed, the timestamp
\* taken, the connection opened, the raw rows built
Begin(t, d) ==
    /\ calls[t].pc = "idle"
    /\ clock' = clock + 1
    /\ calls' = [calls EXCEPT ![t] =
                    [pc |-> "raw", at |-> clock + 1, doc |-> d,
                     raw_rows |-> RawRows(ParseCache(d).rows, clock + 1),
                     mart_rows |-> <<>>, i |-> 1, undo_raw |-> {}, undo_mart |-> {}]]
    /\ UNCHANGED <<statat_trade_raw, trade_index, run, rerun, resp, commits, fn_call>>

\* ingest.py lines 242-257: the next row of the raw INSERT
RawWrite(t) ==
    /\ calls[t].pc = "raw"
    /\ calls[t].i <= Len(calls[t].raw_rows)
    /\ ~Blocked(calls, t, "raw", RawKey(calls[t].raw_rows[calls[t].i]))
    /\ IF ProposedTwice([j \in 1..Len(calls[t].raw_rows) |-> RawKey(calls[t].raw_rows[j])],
                        calls[t].i)
       THEN Rollback(t)
       ELSE /\ statat_trade_raw' = RawUpsertRow(statat_trade_raw, calls[t].raw_rows[calls[t].i])
            /\ calls' = [calls EXCEPT
                            ![t].undo_raw =
                                Remember(calls[t].undo_raw,
                                         RawKey(calls[t].raw_rows[calls[t].i]),
                                         RawRowAt(statat_trade_raw,
                                                  RawKey(calls[t].raw_rows[calls[t].i]))),
                            ![t].i = calls[t].i + 1]
            /\ UNCHANGED <<trade_index, clock, run, rerun, resp, commits, fn_call>>

\* ingest.py lines 259-277: the mart rows are built; strptime may raise
BuildMartRows(t) ==
    /\ calls[t].pc = "raw"
    /\ calls[t].i > Len(calls[t].raw_rows)
    /\ IF PeriodRaises(ParseCache(calls[t].doc).rows)
       THEN Rollback(t)
       ELSE /\ calls' = [calls EXCEPT
                            ![t].pc = "mart",
                            ![t].mart_rows = MartRows(ParseCache(calls[t].doc).rows,
                                                      calls[t].at),
                            ![t].i = 1]
            /\ UNCHANGED <<statat_trade_raw, trade_index, clock, run, rerun, resp, commits, fn_call>>

\* ingest.py lines 279-290: the next row of the mart INSERT
MartWrite(t) ==
    /\ calls[t].pc = "mart"
    /\ calls[t].i <= Len(calls[t].mart_rows)
    /\ ~Blocked(calls, t, "mart", MartKey(calls[t].mart_rows[calls[t].i]))
    /\ IF ProposedTwice([j \in 1..Len(calls[t].mart_rows) |-> MartKey(calls[t].mart_rows[j])],
                        calls[t].i)
       THEN Rollback(t)
       ELSE /\ trade_index' = MartUpsertRow(trade_index, calls[t].mart_rows[calls[t].i])
            /\ calls' = [calls EXCEPT
                            ![t].undo_mart =
                                Remember(calls[t].undo_mart,
                                         MartKey(calls[t].mart_rows[calls[t].i]),
                                         MartRowAt(trade_index,
                                                   MartKey(calls[t].mart_rows[calls[t].i]))),
                            ![t].i = calls[t].i + 1]
            /\ UNCHANGED <<statat_trade_raw, clock, run, rerun, resp, commits, fn_call>>

\* the "with get_conn() as conn" block ends without an exception: commit
Commit(t) ==
    /\ calls[t].pc = "mart"
    /\ calls[t].i > Len(calls[t].mart_rows)
    /\ calls' = [calls EXCEPT ![t].pc = "committed", ![t].undo_raw = {}, ![t].undo_mart = {}]
    /\ commits' = Append(commits, t)
    /\ UNCHANGED <<statat_trade_raw, trade_index, clock, run, rerun, resp, fn_call>>

\* the store finds the call in a cycle of waits and ends its statement with
\* a deadlock error
DeadlockAbort(t) ==
    /\ WaitChain(calls, t, t, MaxCalls)
    /\ Rollback(t)

ConcNext ==
    \E t \in Calls :
        \/ \E d \in ConcDocs : Begin(t, d)
        \/ RawWrite(t)
        \/ BuildMartRows(t)
        \/ MartWrite(t)
        \/ Commit(t)
        \/ DeadlockAbort(t)

\* overlapping ingest calls over one store
ConcSpec == Init /\ [][ConcNext]_vars

\* ------------------------------------------------------------------------
\* The helper functions of ingest.py, called on their own.
Unmoved == UNCHANGED <<statat_trade_raw, trade_index, clock, run, rerun, resp, calls, commits>>

\* header names for the target F-UIDXNOM: equal, equal after normalizing,
\* matching by prefix only, matching by suffix only, not matching
H_Exact == S_FNOM
H_Variant == <<" ", "f", "_", "u", "i", "d", "x", "n", "o", "m">>
H_Prefix == S_FNOM \o <<"-", "2">>
H_Suffix == <<"X", "-">> \o S_FNOM
H_Other == <<"O", "T", "H", "E", "R">>
HeaderNames == {H_Exact, H_Variant, H_Prefix, H_Suffix, H_Other}

HeaderLists == UNION {[1..k -> HeaderNames] : k \in 0..MaxHeaders}
Targets == {S_FNOM, H_Variant}

ResolveColumn(fieldnames, target) ==
    /\ fn_call' = [fn |-> "_resolve_column", fieldnames |-> fieldnames, target |-> target,
                   result |-> _resolve_column(fieldnames, target)]
    /\ Unmoved

\* period keys: a year, with or without a month, plain, dashed, prefixed, and
\* some strings of other shapes
KeyYears == {<<"2", "0", "2", "3">>, <<"0", "0", "0", "0">>}
KeyMonths == {<<"0", "1">>, <<"1", "2">>, <<"1", "3">>, <<"0", "0">>}
KeyPrefixes == {<<>>, S_TIIDX, <<"A", "-", "B", "-">>}
PeriodKeys ==
    {p \o y \o m : p \in KeyPrefixes, y \in KeyYears, m \in KeyMonths \cup {<<>>}}
    \cup {y \o <<"-">> \o m : y \in KeyYears, m \in KeyMonths}
    \cup {P_Q1, <<>>, <<" ">> \o P_202301 \o <<" ">>, <<"2", "0", "2", "3", "1">>,
          <<"2", "0", "2", "3", "-", "1">>, P_202301 \o <<"-", "1", "5">>}

PeriodToDate(period_key) ==
    /\ fn_call' = [fn |-> "_period_to_date", period_key |-> period_key,
                   result |-> _period_to_date(period_key)]
    /\ Unmoved

\* documents for the row parser on its own: rows with blank or missing key
\* cells under the standard header, rows with a month under the month header
SeqsOver(pool, n) == UNION {[1..k -> pool] : k \in 0..n}
FnDocs ==
    {[header |-> "std", rows |-> rs] : rs \in SeqsOver({1, 8, 9, 10, 11}, 2)}
    \cup {[header |-> "month", rows |-> rs] : rs \in SeqsOver(12..16, 2)}

ParseCsvRows(d) ==
    /\ fn_call' = [fn |-> "_parse_csv_rows", doc |-> d, result |-> _parse_csv_rows(DocOf(d))]
    /\ Unmoved

FnNext ==
    \/ \E d \in FnDocs : ParseCsvRows(d)
    \/ \E fieldnames \in HeaderLists, target \in Targets : ResolveColumn(fieldnames, target)
    \/ \E period_key \in PeriodKeys : PeriodToDate(period_key)

\* the helper functions over their inputs
FnSpec == Init /\ [][FnNext]_vars

Next ==
    \/ \E e \in Envs : PostIngest(e)
    \/ \E nace \in QueryNaces, metric \in QueryMetrics : GetLatest(nace, metric)
    \/ \E nace \in QueryNaces : nominal_vs_real(nace)

\* the API: ingest requests and reads
Spec == Init /\ [][Next]_vars

\* the ingest service alone: POST /ingest requests only
IngestNext == \E e \in Envs : PostIngest(e)

IngestSpec == Init /\ [][IngestNext]_vars

\* ========================================================================
\* Properties.

\* the rows the last call of ingest() parsed from its source, <<>> if none
ParsedRowsOf(r) ==
    IF r.load.kind = "text" /\ r.mode \in {"mock", "live"} /\ ParseCache(r.load.doc).ok
    THEN ParseCache(r.load.doc).rows
    ELSE <<>>

\* a step that is one call of ingest()
IngestStep == run'.id # run.id

\* a table without its ingestion timestamps
Untimed(table) == {[r EXCEPT !.ingested_at = 0] : r \in table}

SameContent(old, new) ==
    /\ Untimed(old) = Untimed(new)
    /\ Cardinality(old) = Cardinality(new)

\* C1: ingesting the same source content again, after a successful run, leaves
\* both tables with the same keys, values and row counts (only ingested_at
\* may differ) and returns the same rows_loaded, distinct_nace, min_date and
\* max_date.
C1_Idempotent ==
    [][ (IngestStep /\ run.outcome = "ok" /\ run'.outcome = "ok" /\ run'.load = run.load)
        => /\ SameContent(statat_trade_raw, statat_trade_raw')
           /\ SameContent(trade_index, trade_index')
           /\ run'.summary.v.rows_loaded = run.summary.v.rows_loaded
           /\ run'.summary.v.distinct_nace = run.summary.v.distinct_nace
           /\ run'.summary.v.min_date = run.summary.v.min_date
           /\ run'.summary.v.max_date = run.summary.v.max_date ]_vars

\* a second run over the same content that stored several rows
C1_Witness ==
    /\ rerun
    /\ run.outcome = "ok"
    /\ run.stage = "store"
    /\ run.summary.v.rows_loaded >= 2
    /\ \A r \in statat_trade_raw : r.ingested_at = run.at

\* the raw rows a mart row can be derived from: same date, same code, the
\* row's metric column holding the row's value
SourcesOf(m, raw_t) ==
    {r \in raw_t : /\ _period_to_date(r.period_key) = [kind |-> "date", ym |-> m.period_date]
                   /\ NaceCode(r.nace_key) = m.nace_code
                   /\ r[m.metric] = Some(m.value)}

\* C2: every row of trade_index is derivable from exactly one row of
\* statat_trade_raw.
C2_Traceable ==
    \A m \in trade_index : Cardinality(SourcesOf(m, statat_trade_raw)) = 1

\* the metrics a parsed row has a value for
Present(row) == {metric \in ALLOWED_METRICS : row.values[metric].some}

Resolved(row) == _period_to_date(row.period_key).kind = "date"

\* the mart rows holding the date and the code of a parsed row
MartRowsFor(row, mart_t) ==
    {m \in mart_t : /\ m.period_date = _period_to_date(row.period_key).ym
                    /\ m.nace_code = NaceCode(row.nace_key)}

\* exactly one mart row per present metric of the row, with its value, and
\* none for an absent metric
Unpivoted(row, mart_t) ==
    /\ Cardinality(MartRowsFor(row, mart_t)) = Cardinality(Present(row))
    /\ \A metric \in Present(row) :
          \E m \in MartRowsFor(row, mart_t) :
              m.metric = metric /\ m.value = row.values[metric].v
    /\ \A m \in MartRowsFor(row, mart_t) : m.metric \in Present(row)

\* no other parsed row of the run resolves to the same date and code
AloneOnKey(rows, i) ==
    \A j \in 1..Len(rows) :
        (j # i /\ Resolved(rows[j]))
        => \/ _period_to_date(rows[j].period_key) # _period_to_date(rows[i].period_key)
           \/ NaceCode(rows[j].nace_key) # NaceCode(rows[i].nace_key)

IntoEmptyStore ==
    /\ IngestStep
    /\ statat_trade_raw = {}
    /\ trade_index = {}
    /\ run'.outcome = "ok"

\* C3 as stated: after a successful run into an empty store, every parsed row
\* with a resolvable period and k of the five metrics present has exactly k
\* mart rows, one per present metric with its value, none for an absent one.
C3_AsStated ==
    [][ IntoEmptyStore
        => \A rows \in {ParsedRowsOf(run')} :
              \A i \in 1..Len(rows) :
                 Resolved(rows[i]) => Unpivoted(rows[i], trade_index') ]_vars

\* C3: the same, for the parsed rows that share their date and category code
\* with no other parsed row of the run.
C3_Unpivot ==
    [][ IntoEmptyStore
        => \A rows \in {ParsedRowsOf(run')} :
              \A i \in 1..Len(rows) :
                 (Resolved(rows[i]) /\ AloneOnKey(rows, i))
                 => Unpivoted(rows[i], trade_index') ]_vars

\* a first run stored a row with three metrics (one of them zero) next to
\* a row with another date
C3_Witness ==
    /\ run.id = 1
    /\ run.outcome = "ok"
    /\ run.stage = "store"
    /\ \E rows \in {ParsedRowsOf(run)} :
          /\ Len(rows) >= 2
          /\ \E i \in 1..Len(rows) :
                /\ Resolved(rows[i])
                /\ AloneOnKey(rows, i)
                /\ Cardinality(Present(rows[i])) = 3
                /\ Cardinality(MartRowsFor(rows[i], trade_index)) = 3

\* the last parsed row holding a raw key
LastWithKey(rows, key) ==
    rows[CHOOSE i \in 1..Len(rows) :
            /\ <<rows[i].period_key, rows[i].nace_key>> = key
            /\ \A j \in (i + 1)..Len(rows) :
                  <<rows[j].period_key, rows[j].nace_key>> # key]

KeysOf(rows) == {<<rows[i].period_key, rows[i].nace_key>> : i \in 1..Len(rows)}

\* C4: the raw table holds at most one row per (period_key, nace_key); a
\* successful run leaves, for each key it parsed, the values of the last
\* parsed row with that key and the run's timestamp, and leaves every other
\* row as it was.
C4_LastWriteWins ==
    [][ /\ \A r, q \in statat_trade_raw' : RawKey(r) = RawKey(q) => r = q
        /\ (IngestStep /\ run'.outcome = "ok")
           => \A rows \in {ParsedRowsOf(run')} :
              \A keys \in {KeysOf(rows)} :
                 /\ \A key \in keys :
                       RawRowOf(LastWithKey(rows, key), run'.at) \in statat_trade_raw'
                 /\ \A r \in statat_trade_raw :
                       RawKey(r) \notin keys => r \in statat_trade_raw'
                 /\ \A r \in statat_trade_raw' :
                       RawKey(r) \in keys \/ r \in statat_trade_raw ]_vars

\* a second run overwrote a key (stamped 2) and left a row of the first run
\* (stamped 1) alone
C4_Witness ==
    /\ run.id = 2
    /\ run.outcome = "ok"
    /\ run.stage = "store"
    /\ \E r, q \in statat_trade_raw :
          /\ r.ingested_at = 1
          /\ q.ingested_at = 2
          /\ q.uidxnom = None
          /\ q.period_key = P_202301

\* two rows proposed by the same INSERT statement: execute_values sends the
\* rows in pages of PageSize
SamePage(i, j) == (i - 1) \div PageSize = (j - 1) \div PageSize

\* no statement of the run proposes a key twice
NoClash(keys) ==
    \A i, j \in 1..Len(keys) : (i < j /\ SamePage(i, j)) => keys[i] # keys[j]

RawKeySeq(rows) == [i \in 1..Len(rows) |-> <<rows[i].period_key, rows[i].nace_key>>]
MartKeySeq(mart_rows) == [i \in 1..Len(mart_rows) |-> MartKey(mart_rows[i])]

Unrecognized(row) == _period_to_date(row.period_key).kind = "none"

\* nothing but an unrecognized period key stands in the way of the run: the
\* source was read and parsed, the store is up, no period key is a malformed
\* date, no statement proposes a key twice
OnlyUnrecognized(r, rows) ==
    /\ r.db = "up"
    /\ \E i \in 1..Len(rows) : Unrecognized(rows[i])
    /\ \A i \in 1..Len(rows) : Unrecognized(rows[i]) \/ Resolved(rows[i])
    /\ NoClash(RawKeySeq(rows))
    /\ NoClash(MartKeySeq(MartRows(rows, r.at)))

\* C5: a run whose parsed rows include rows with a period key of no
\* recognized shape, and that has no other cause of failure, completes with a
\* summary; each such row is in the raw table with the run's timestamp, and
\* every mart row the run wrote comes from a row with a resolved date.
C5_UnrecognizedPeriod ==
    \A rows \in {ParsedRowsOf(run)} :
        OnlyUnrecognized(run, rows)
        => /\ run.outcome = "ok"
           /\ run.summary.some
           /\ run.summary.v.rows_loaded = Len(rows)
           /\ \A i \in 1..Len(rows) :
                 Unrecognized(rows[i])
                 => \E r \in statat_trade_raw :
                       /\ r.period_key = rows[i].period_key
                       /\ r.nace_key = rows[i].nace_key
                       /\ r.ingested_at = run.at
           /\ \A m \in trade_index :
                 m.ingested_at = run.at
                 => \E i \in 1..Len(rows) :
                       /\ Resolved(rows[i])
                       /\ m.period_date = _period_to_date(rows[i].period_key).ym
                       /\ m.nace_code = NaceCode(rows[i].nace_key)

\* a run stored a row with an unrecognized period key next to a dated row
C5_Witness ==
    /\ run.outcome = "ok"
    /\ run.stage = "store"
    /\ \E rows \in {ParsedRowsOf(run)} :
          /\ OnlyUnrecognized(run, rows)
          /\ \E i \in 1..Len(rows) : Resolved(rows[i])
    /\ \E r \in statat_trade_raw : r.period_key = P_Q1 /\ r.ingested_at = run.at
    /\ \E m \in trade_index : m.ingested_at = run.at

\* a required column no header resolves and, for the two key columns, no
\* sampled cell gives away
Unresolvable(header, data_rows, column) ==
    /\ \A i \in 1..Len(header) : header[i] = <<>> \/ ~HeaderMatches(header[i], column)
    /\ column = S_CTI0
       => \A idx \in 1..Len(header), r \in 1..Min(Len(data_rows), SampleRows) :
             idx <= Len(data_rows[r])
             => ~StartsWith(Strip(data_rows[r][idx]), S_TIIDX)
    /\ column = S_CNACE
       => \A idx \in 1..Len(header), r \in 1..Min(Len(data_rows), SampleRows) :
             idx <= Len(data_rows[r])
             => ~StartsWith(Strip(data_rows[r][idx]), S_NACEIDX)

RequiredNames == <<S_CTI0, S_CNACE, S_FNOM, S_FREAL, S_FBESCH>>

\* the unresolved required columns of a non-empty document, in order
UnresolvedOf(rows_raw) ==
    LET lacking(column) == Unresolvable(Head(rows_raw), Tail(rows_raw), column)
    IN SelectSeq(RequiredNames, lacking)

\* the documents the model can be given, with their unresolved columns
UnresolvedTable ==
    {<<d, IF DocOf(d) = <<>> THEN <<>> ELSE UnresolvedOf(DocOf(d))>> : d \in Docs}

\* the last run read a non-empty CSV lacking these required columns
LackingOf(r) ==
    IF r.load.kind = "text" /\ r.mode \in {"mock", "live"}
    THEN (CHOOSE p \in UnresolvedTable : p[1] = r.load.doc)[2]
    ELSE <<>>

\* C6: a run over a non-empty CSV with an unresolvable required column fails
\* with the error naming exactly the unresolved required columns, without a
\* store connection and with both tables unchanged.
C6_MissingColumns ==
    [][ IngestStep
        => \A lacking \in {LackingOf(run')} :
              lacking # <<>>
              => /\ run'.outcome = "ValueError"
                 /\ run'.stage = "parse"
                 /\ run'.missing = lacking
                 /\ ~run'.conn
                 /\ statat_trade_raw' = statat_trade_raw
                 /\ trade_index' = trade_index ]_vars

\* a run over a filled store failed naming two columns
C6_Witness ==
    /\ run.outcome = "ValueError"
    /\ run.stage = "parse"
    /\ Len(run.missing) = 2
    /\ Len(LackingOf(run)) = 2
    /\ statat_trade_raw # {}
    /\ trade_index # {}

\* the last run's source parsed, to zero rows
ParsedNothing(r) ==
    /\ r.load.kind = "text"
    /\ r.mode \in {"mock", "live"}
    /\ ParseCache(r.load.doc).ok
    /\ ParseCache(r.load.doc).rows = <<>>

\* C7: a run whose source parses to zero rows returns rows_loaded = 0,
\* distinct_nace = 0, min_date = None, max_date = None and its source_mode,
\* opens no store connection and leaves both tables unchanged.
C7_EmptySource ==
    [][ (IngestStep /\ ParsedNothing(run'))
        => /\ run'.outcome = "ok"
           /\ run'.summary = Some([rows_loaded |-> 0, distinct_nace |-> 0,
                                   min_date |-> None, max_date |-> None,
                                   source_mode |-> run'.mode])
           /\ ~run'.conn
           /\ statat_trade_raw' = statat_trade_raw
           /\ trade_index' = trade_index ]_vars

\* a run over a filled store, with the store down, read an empty source
C7_Witness ==
    /\ ParsedNothing(run)
    /\ run.db = "down"
    /\ run.outcome = "ok"
    /\ run.summary.v.rows_loaded = 0
    /\ statat_trade_raw # {}

\* C9: POST /ingest answers 400 to a mode other than mock or live, 400 with
\* the explanation to a parse failure, 500 with the generic message to every
\* other failure.
C9_StatusCodes ==
    resp.op = "ingest"
    => IF resp.mode \notin {"mock", "live"} THEN resp.status = 400
       ELSE IF run.outcome = "ok" THEN resp.status = 200
       ELSE IF run.stage = "parse"
       THEN resp.status = 400 /\ resp.detail.missing = run.missing
       ELSE resp.status = 500 /\ resp.detail = "Ingestion failed"

\* the mart rows a GET /latest request is about
Asked(r, table) == {m \in table : m.nace_code = r.nace /\ m.metric = r.metric}

Newest(rows) == CHOOSE m \in rows : \A q \in rows : q.period_date <= m.period_date

\* C10: GET /latest answers 404 when the mart holds no row for the category
\* and metric; else latest_value is the value at the greatest date and
\* previous_value the value at the second greatest; with one row only,
\* previous_value, delta and delta_percent are None; delta = latest -
\* previous; delta_percent = delta / previous * 100 unless previous is zero,
\* and None then.
C10_Latest ==
    (resp.op = "latest" /\ resp.metric \in ALLOWED_METRICS)
    => \A rows \in {Asked(resp, trade_index)} :
          IF rows = {} THEN resp.status = 404
          ELSE /\ resp.status = 200
               /\ resp.body.latest_date = Newest(rows).period_date
               /\ resp.body.latest_value = Newest(rows).value
               /\ \A rest \in {rows \ {Newest(rows)}} :
                     IF rest = {}
                     THEN /\ resp.body.previous_value = None
                          /\ resp.body.delta = None
                          /\ resp.body.delta_percent = None
                     ELSE /\ Newest(rest).period_date < Newest(rows).period_date
                          /\ resp.body.previous_value = Some(Newest(rest).value)
                          /\ resp.body.delta
                                = Some(Newest(rows).value - Newest(rest).value)
                          /\ IF Newest(rest).value = 0
                             THEN resp.body.delta_percent = None
                             ELSE /\ resp.body.delta_percent.some
                                  /\ resp.body.delta_percent.v.num * Newest(rest).value
                                        = (Newest(rows).value - Newest(rest).value) * 100
                                             * resp.body.delta_percent.v.den

\* a read found two dates with different non-zero values
C10_Witness ==
    /\ resp.op = "latest"
    /\ resp.status = 200
    /\ resp.body.previous_value.some
    /\ resp.body.delta.v # 0
    /\ resp.body.delta_percent.some
    /\ Cardinality(Asked(resp, trade_index)) >= 2

\* no call is in the middle of its transaction
AllFinished == \A t \in Calls : ~Open(calls[t])

Committed == {commits[n] : n \in 1..Len(commits)}

\* the committed calls that wrote a key
RawWriters(key) ==
    {t \in Committed : \E j \in 1..Len(calls[t].raw_rows) : RawKey(calls[t].raw_rows[j]) = key}
MartWriters(key) ==
    {t \in Committed : \E j \in 1..Len(calls[t].mart_rows) : MartKey(calls[t].mart_rows[j]) = key}

\* of a set of committed calls, the one that committed last
LastCommitted(writers) ==
    commits[CHOOSE n \in 1..Len(commits) :
               /\ commits[n] \in writers
               /\ \A m \in (n + 1)..Len(commits) : commits[m] \notin writers]

\* the last row with a key among the rows a call wrote
LastRawRow(rows, key) ==
    rows[CHOOSE j \in 1..Len(rows) :
            /\ RawKey(rows[j]) = key
            /\ \A k \in (j + 1)..Len(rows) : RawKey(rows[k]) # key]

LastMartRow(rows, key) ==
    rows[CHOOSE j \in 1..Len(rows) :
            /\ MartKey(rows[j]) = key
            /\ \A k \in (j + 1)..Len(rows) : MartKey(rows[k]) # key]

AllRawKeys == UNION {{RawKey(calls[t].raw_rows[j]) : j \in 1..Len(calls[t].raw_rows)} : t \in Calls}
AllMartKeys == UNION {{MartKey(calls[t].mart_rows[j]) : j \in 1..Len(calls[t].mart_rows)} : t \in Calls}

\* C8: once overlapping calls have finished, every raw key and every mart key
\* written by two or more calls that committed holds the row written by the
\* one of them that committed last.
C8_LastCommitWins ==
    AllFinished
    => /\ \A key \in AllRawKeys :
             Cardinality(RawWriters(key)) >= 2
             => LastRawRow(calls[LastCommitted(RawWriters(key))].raw_rows, key)
                    \in statat_trade_raw
       /\ \A key \in AllMartKeys :
             Cardinality(MartWriters(key)) >= 2
             => LastMartRow(calls[LastCommitted(MartWriters(key))].mart_rows, key)
                    \in trade_index
       /\ \A r, q \in statat_trade_raw : RawKey(r) = RawKey(q) => r = q
       /\ \A r, q \in trade_index : MartKey(r) = MartKey(q) => r = q

\* two calls overlapped (the one that began first committed last), both wrote
\* the same raw key and the same mart key with different values, both committed
C8_Witness ==
    /\ AllFinished
    /\ Len(commits) = 2
    /\ calls[commits[1]].at > calls[commits[2]].at
    /\ calls[commits[1]].doc # calls[commits[2]].doc
    /\ \E key \in AllRawKeys : Cardinality(RawWriters(key)) = 2
    /\ \E key \in AllMartKeys :
          /\ Cardinality(MartWriters(key)) = 2
          /\ \E r \in trade_index : MartKey(r) = key /\ r.ingested_at = calls[commits[2]].at

\* the mart rows of a metric for the category a request asks about
OfMetric(r, table, metric) == {m \in table : m.nace_code = r.nace /\ m.metric = metric}

\* the dates at which the category has both a uidxnom and a uidxreal row
SharedDates(r, table) ==
    {m.period_date : m \in OfMetric(r, table, "uidxnom")}
        \cap {m.period_date : m \in OfMetric(r, table, "uidxreal")}

ValueAt(rows, period_date) == (CHOOSE m \in rows : m.period_date = period_date).value

\* C11: GET /insights/nominal-vs-real answers for the most recent date at
\* which the category has both a uidxnom and a uidxreal row, with gap =
\* uidxnom - uidxreal at that date; gap is None only when one of the two
\* metrics is absent for the category.
C11_SharedDate ==
    (resp.op = "nominal_vs_real" /\ resp.status = 200)
    => \A shared \in {SharedDates(resp, trade_index)} :
          /\ shared # {}
             => \A latest \in {CHOOSE d \in shared : \A e \in shared : e <= d} :
                   /\ resp.body.period_date = latest
                   /\ resp.body.gap
                         = Some(ValueAt(OfMetric(resp, trade_index, "uidxnom"), latest)
                                   - ValueAt(OfMetric(resp, trade_index, "uidxreal"), latest))
          /\ resp.body.gap = None
             => \/ OfMetric(resp, trade_index, "uidxnom") = {}
                \/ OfMetric(resp, trade_index, "uidxreal") = {}

\* the positions of a header list whose normalized name stands in a relation
\* to the normalized target
EqualAt(fieldnames, target) ==
    {i \in 1..Len(fieldnames) : _normalize_header(fieldnames[i]) = _normalize_header(target)}
PrefixAt(fieldnames, target) ==
    {i \in 1..Len(fieldnames) :
        StartsWith(_normalize_header(fieldnames[i]), _normalize_header(target))}
SuffixAt(fieldnames, target) ==
    {i \in 1..Len(fieldnames) :
        EndsWith(_normalize_header(fieldnames[i]), _normalize_header(target))}

ReturnedFrom(c, positions) ==
    c.result.some /\ \E i \in positions : c.result.v = c.fieldnames[i]

\* C12: _resolve_column returns a header equal to the target after
\* normalizing whenever there is one, else a header matching by prefix
\* whenever there is one, else a header matching by suffix, else None.
C12_Priority ==
    fn_call.fn = "_resolve_column"
    => IF EqualAt(fn_call.fieldnames, fn_call.target) # {}
       THEN ReturnedFrom(fn_call, EqualAt(fn_call.fieldnames, fn_call.target))
       ELSE IF PrefixAt(fn_call.fieldnames, fn_call.target) # {}
       THEN ReturnedFrom(fn_call, PrefixAt(fn_call.fieldnames, fn_call.target))
       ELSE IF SuffixAt(fn_call.fieldnames, fn_call.target) # {}
       THEN ReturnedFrom(fn_call, SuffixAt(fn_call.fieldnames, fn_call.target))
       ELSE fn_call.result = None

\* the date a string of six or four digits stands for: the first day of the
\* month, or January of the year; unresolved when the digits are no valid
\* year and month
DateOfDigits(digits) ==
    LET year == ToInt(SubSeq(digits, 1, 4))
        month == IF Len(digits) = 6 THEN ToInt(SubSeq(digits, 5, 6)) ELSE 1
    IN IF year >= 1 /\ month \in 1..12
       THEN [kind |-> "date", ym |-> year * 100 + month]
       ELSE [kind |-> "none"]

\* what a period key reduces to: the digits after the last dash of a prefixed
\* key, the year and month around the dash of YYYY-MM, else the key itself
ReducedKey(key) ==
    LET parts == Split(key, "-")
    IN IF Len(parts) = 2 /\ Len(parts[1]) = 4 /\ Len(parts[2]) = 2
       THEN parts[1] \o parts[2]
       ELSE IF Len(parts) >= 2 /\ Len(parts[Len(parts)]) \in {4, 6}
       THEN parts[Len(parts)]
       ELSE key

\* C13: _period_to_date never raises; a key reducing to six digits YYYYMM
\* gives the first day of that month, a key reducing to four digits gives
\* January of that year, every other string, digits that are no valid year or
\* month included, gives unresolved.
C13_Total ==
    fn_call.fn = "_period_to_date"
    => \A reduced \in {ReducedKey(Strip(fn_call.period_key))} :
          IF Len(reduced) \in {4, 6} /\ IsDigit(reduced)
          THEN fn_call.result = DateOfDigits(reduced)
          ELSE fn_call.result = [kind |-> "none"]

\* the cell of a data row is missing, empty or only whitespace
BlankCell(row, idx) == idx > Len(row) \/ Strip(row[idx]) = <<>>

\* the data rows of a document of FnDocs; the period is column 1 and the
\* category column 2 of its header
DataRowsOf(d) == Tail(DocOf(d))

\* C14: every row _parse_csv_rows emits has a non-empty period key and a
\* non-empty category key, and it emits a row for exactly the data rows whose
\* period cell and category cell are not missing, empty or only whitespace.
C14_KeysPresent ==
    (fn_call.fn = "_parse_csv_rows" /\ fn_call.result.ok)
    => /\ \A i \in 1..Len(fn_call.result.rows) :
             /\ fn_call.result.rows[i].period_key # <<>>
             /\ fn_call.result.rows[i].nace_key # <<>>
       /\ \A data_rows \in {DataRowsOf(fn_call.doc)} :
             Len(fn_call.result.rows)
                = Cardinality({i \in 1..Len(data_rows) :
                                  ~BlankCell(data_rows[i], 1) /\ ~BlankCell(data_rows[i], 2)})

\* a column whose non-empty values in the sampled rows are all integers 1..12
MonthColumn(data_rows, idx) ==
    /\ \E r \in 1..Min(Len(data_rows), SampleRows) : ~BlankCell(data_rows[r], idx)
    /\ \A r \in 1..Min(Len(data_rows), SampleRows) :
          BlankCell(data_rows[r], idx)
          \/ (IsDigit(Strip(data_rows[r][idx])) /\ ToInt(Strip(data_rows[r][idx])) \in 1..12)

BareYear(cell) == Len(Strip(cell)) = 4 /\ IsDigit(Strip(cell))

\* six digits, the year followed by a month 01..12
YearAndMonth(key, year) ==
    /\ Len(key) = 6
    /\ IsDigit(key)
    /\ SubSeq(key, 1, 4) = year
    /\ ToInt(SubSeq(key, 5, 6)) \in 1..12

\* C15: when some column is inferred as the month column, every emitted row
\* whose period cell is a bare 4-digit year has a period key of six digits,
\* the year followed by a month 01..12, and every other emitted row keeps its
\* period cell as its key.
C15_MonthInference ==
    (fn_call.fn = "_parse_csv_rows" /\ fn_call.result.ok)
    => \A data_rows \in {DataRowsOf(fn_call.doc)} :
          (/\ Len(fn_call.result.rows) = Len(data_rows)
           /\ \E idx \in 1..Len(Head(DocOf(fn_call.doc))) : MonthColumn(data_rows, idx))
          => \A i \in 1..Len(data_rows) :
                IF BareYear(data_rows[i][1])
                THEN YearAndMonth(fn_call.result.rows[i].period_key, Strip(data_rows[i][1]))
                ELSE fn_call.result.rows[i].period_key = Strip(data_rows[i][1])

\* the raw rows of the run are in the raw table, stamped by the run
RawCommitted(r, rows, raw_t) ==
    \A i \in 1..Len(rows) :
        \E q \in raw_t : /\ q.period_key = rows[i].period_key
                         /\ q.nace_key = rows[i].nace_key
                         /\ q.ingested_at = r.at

\* the mart rows of the run are in the mart table, stamped by the run
MartCommitted(r, mart_rows, mart_t) ==
    \A i \in 1..Len(mart_rows) :
        \E q \in mart_t : /\ MartKey(q) = MartKey(mart_rows[i])
                          /\ q.ingested_at = r.at

\* C16: a call of ingest() either commits its raw rows and its mart rows
\* together and returns, or raises and leaves both tables as they were before
\* the call, whether the failure comes before, between or after the upserts.
C16_Atomic ==
    [][ IngestStep
        => \A rows \in {ParsedRowsOf(run')} :
              IF run'.outcome = "ok"
              THEN /\ RawCommitted(run', rows, statat_trade_raw')
                   /\ MartCommitted(run', MartRows(rows, run'.at), trade_index')
              ELSE /\ statat_trade_raw' = statat_trade_raw
                   /\ trade_index' = trade_index ]_vars

\* a second run failed between its two upserts, the raw one being able to
\* succeed: the tables hold the first run's rows and nothing of the second
C16_Witness ==
    /\ run.id = 2
    /\ run.outcome = "ValueError"
    /\ run.stage = "store"
    /\ NoClash(RawKeySeq(ParsedRowsOf(run)))
    /\ statat_trade_raw # {}
    /\ trade_index # {}
    /\ \A q \in statat_trade_raw : q.ingested_at = 1
    /\ \A q \in trade_index : q.ingested_at = 1
====
